---- MODULE Spec2Model ----
(***************************************************************************)
(* Mood Logger (src/app.py): a Streamlit page that appends mood entries to *)
(* a spreadsheet, reads the whole sheet back, filters it by a day or a     *)
(* date range and charts per-bucket mood counts.  Every user interaction   *)
(* or timer tick re-runs main() from top to bottom; one such run is one    *)
(* step of the model.                                                      *)
(*                                                                         *)
(* Text is modelled as a sequence of code points, a calendar date as its   *)
(* proleptic Gregorian ordinal (datetime.date.toordinal), a datetime as    *)
(* <<ordinal, second of day>> and pandas' NaT as <<>>.                     *)
(***************************************************************************)
EXTENDS Integers, Sequences, FiniteSets, TLC

(***************************************************************************)
(* Text                                                                    *)
(***************************************************************************)
\* "timestamp", "mood", "note": the column names main() and the chart use
S_timestamp == <<116, 105, 109, 101, 115, 116, 97, 109, 112>>
S_mood == <<109, 111, 111, 100>>
S_note == <<110, 111, 116, 101>>
\* "Week of "
S_WeekOf == <<87, 101, 101, 107, 32, 111, 102, 32>>

Dash == 45
Colon == 58
Space == 32

IsDigit(c) == c >= 48 /\ c <= 57

\* zero-padded decimal fields, as strftime writes %Y, %m, %d, %H, %M, %S
Num2(n) == <<48 + ((n \div 10) % 10), 48 + (n % 10)>>
Num4(n) == <<48 + ((n \div 1000) % 10), 48 + ((n \div 100) % 10)>> \o Num2(n)

\* the value of the decimal digits s[i..j]
RECURSIVE DecVal(_, _, _)
DecVal(s, i, j) == IF j < i THEN 0 ELSE 10 * DecVal(s, i, j - 1) + (s[j] - 48)

AllDigits(s, i, j) == \A k \in i..j : IsDigit(s[k])

\* Python's str < str: lexicographic by code point
RECURSIVE StrLess(_, _)
StrLess(a, b) ==
  IF b = <<>> THEN FALSE
  ELSE IF a = <<>> THEN TRUE
  ELSE IF Head(a) # Head(b) THEN Head(a) < Head(b)
  ELSE StrLess(Tail(a), Tail(b))

(***************************************************************************)
(* Calendar (datetime.date)                                                *)
(***************************************************************************)
IsLeap(y) == (y % 4 = 0) /\ ((y % 100 # 0) \/ (y % 400 = 0))

DaysBeforeYear(y) ==
  (y - 1) * 365 + ((y - 1) \div 4) - ((y - 1) \div 100) + ((y - 1) \div 400)

DaysInMonth(y, m) ==
  IF m = 2 THEN (IF IsLeap(y) THEN 29 ELSE 28)
  ELSE IF m \in {4, 6, 9, 11} THEN 30 ELSE 31

RECURSIVE DaysBeforeMonth(_, _)
DaysBeforeMonth(y, m) ==
  IF m <= 1 THEN 0 ELSE DaysBeforeMonth(y, m - 1) + DaysInMonth(y, m - 1)

\* date(y, m, d).toordinal()
Ymd2Ord(y, m, d) == DaysBeforeYear(y) + DaysBeforeMonth(y, m) + d

RECURSIVE YearOfFrom(_, _)
YearOfFrom(o, y) == IF DaysBeforeYear(y + 1) < o THEN YearOfFrom(o, y + 1) ELSE y

YearOf(o) == YearOfFrom(o, (o \div 366) + 1)

RECURSIVE MonthOfFrom(_, _, _)
MonthOfFrom(y, n, m) ==
  IF m < 12 /\ DaysBeforeMonth(y, m + 1) < n THEN MonthOfFrom(y, n, m + 1) ELSE m

MonthOf(o) == MonthOfFrom(YearOf(o), o - DaysBeforeYear(YearOf(o)), 1)

DayOf(o) == o - DaysBeforeYear(YearOf(o)) - DaysBeforeMonth(YearOf(o), MonthOf(o))

\* date.weekday(): Monday is 0
Weekday(o) == (o + 6) % 7

\* %b in the C locale
MonthAbbr(m) ==
  CASE m = 1 -> <<74, 97, 110>>
    [] m = 2 -> <<70, 101, 98>>
    [] m = 3 -> <<77, 97, 114>>
    [] m = 4 -> <<65, 112, 114>>
    [] m = 5 -> <<77, 97, 121>>
    [] m = 6 -> <<74, 117, 110>>
    [] m = 7 -> <<74, 117, 108>>
    [] m = 8 -> <<65, 117, 103>>
    [] m = 9 -> <<83, 101, 112>>
    [] m = 10 -> <<79, 99, 116>>
    [] m = 11 -> <<78, 111, 118>>
    [] OTHER -> <<68, 101, 99>>

(***************************************************************************)
(* Datetimes: <<ordinal, second of day>>; NaT is <<>>                      *)
(***************************************************************************)
NaT == <<>>

DateOf(ts) == ts[1]

\* strftime('%Y-%m-%d')
FmtDate(o) == Num4(YearOf(o)) \o <<Dash>> \o Num2(MonthOf(o)) \o <<Dash>> \o Num2(DayOf(o))

\* strftime('%Y-%m')
FmtYearMonth(o) == Num4(YearOf(o)) \o <<Dash>> \o Num2(MonthOf(o))

\* strftime('%Y')
FmtYear(o) == Num4(YearOf(o))

\* strftime("%Y-%m-%d %H:%M:%S")
FmtTimestamp(ts) ==
  FmtDate(ts[1]) \o <<Space>> \o Num2(ts[2] \div 3600) \o <<Colon>>
    \o Num2((ts[2] \div 60) % 60) \o <<Colon>> \o Num2(ts[2] % 60)

\* pd.to_datetime(text, errors='coerce') on the layout the program writes:
\* anything else, or a date or time out of range, becomes NaT
ParseTimestamp(s) ==
  IF Len(s) # 19 THEN NaT
  ELSE IF ~(AllDigits(s, 1, 4) /\ s[5] = Dash /\ AllDigits(s, 6, 7) /\ s[8] = Dash
            /\ AllDigits(s, 9, 10) /\ s[11] = Space /\ AllDigits(s, 12, 13)
            /\ s[14] = Colon /\ AllDigits(s, 15, 16) /\ s[17] = Colon
            /\ AllDigits(s, 18, 19))
  THEN NaT
  ELSE LET y == DecVal(s, 1, 4)
           m == DecVal(s, 6, 7)
           d == DecVal(s, 9, 10)
           hh == DecVal(s, 12, 13)
           mm == DecVal(s, 15, 16)
           ss == DecVal(s, 18, 19)
       IN IF y >= 1 /\ m >= 1 /\ m <= 12 /\ d >= 1 /\ d <= DaysInMonth(y, m)
             /\ hh <= 23 /\ mm <= 59 /\ ss <= 59
          THEN <<Ymd2Ord(y, m, d), hh * 3600 + mm * 60 + ss>>
          ELSE NaT

\* pd.to_datetime(text, format='%Y-%m'): the first day of the month
ParseYearMonth(s) == Ymd2Ord(DecVal(s, 1, 4), DecVal(s, 6, 7), 1)

(***************************************************************************)
(* Data frames: [columns |-> names, rows |-> rows of cells]                *)
(***************************************************************************)
\* pd.DataFrame()
EmptyFrame == [columns |-> <<>>, rows |-> <<>>]

\* DataFrame.empty
IsEmpty(f) == Len(f.columns) = 0 \/ Len(f.rows) = 0

\* position of a column label, 0 when df[name] raises KeyError
ColIndex(f, name) ==
  IF \E i \in 1..Len(f.columns) : f.columns[i] = name
  THEN CHOOSE i \in 1..Len(f.columns) :
         f.columns[i] = name /\ \A j \in 1..(i - 1) : f.columns[j] # name
  ELSE 0

\* a column as a sequence of cells
Column(f, i) == [k \in 1..Len(f.rows) |-> f.rows[k][i]]

\* df[mask]: the rows whose mask bit is set, in their order
RECURSIVE MaskRows(_, _)
MaskRows(rows, mask) ==
  IF rows = <<>> THEN <<>>
  ELSE (IF Head(mask) THEN <<Head(rows)>> ELSE <<>>) \o MaskRows(Tail(rows), Tail(mask))

(***************************************************************************)
(* The mood selector and the sheet                                         *)
(***************************************************************************)
\* the options of st.selectbox("How are you feeling?", ...), one code point each
MoodOptions == << <<128522>>, <<128544>>, <<128533>>, <<127881>> >>

Moods == {MoodOptions[i] : i \in 1..Len(MoodOptions)}

\* the header row of the sheet (spec 6: timestamp, mood, note)
HeaderRow == <<S_timestamp, S_mood, S_note>>

\* Worksheet.append_row(values): one more row after the last one
append_row(s, values) == Append(s, values)

\* Worksheet.get_all_values(): every row, header included
get_all_values(s) == s

(***************************************************************************)
(* get_data, log_mood, handle_auto_refresh                                 *)
(***************************************************************************)
\* rdOk = FALSE: sheet.get_all_values() raises
get_data(s, rdOk) ==
  IF ~rdOk THEN [df |-> EmptyFrame, msgs |-> {"Error reading data"}]
  ELSE LET records == get_all_values(s)
       IN IF Len(records) < 2 THEN [df |-> EmptyFrame, msgs |-> {}]
          ELSE [df |-> [columns |-> records[1], rows |-> Tail(records)], msgs |-> {}]

\* log_mood as it would be with a second try after a failed append
log_mood_retry(s, t, m, n, apOk) ==
  [ret |-> TRUE, sheet |-> append_row(s, <<FmtTimestamp(t), m, n>>),
   msgs |-> IF apOk THEN {} ELSE {"Error logging mood"},
   attempts |-> IF apOk THEN 1 ELSE 2, raised |-> ~apOk]

\* apOk = FALSE: sheet.append_row() raises and leaves the sheet alone
log_mood(s, t, m, n, apOk) ==
  IF apOk
  THEN [ret |-> TRUE, sheet |-> append_row(s, <<FmtTimestamp(t), m, n>>),
        msgs |-> {}, attempts |-> 1, raised |-> FALSE]
  ELSE [ret |-> FALSE, sheet |-> s, msgs |-> {"Error logging mood"}, attempts |-> 1,
        raised |-> TRUE]

OnSubmission == "On submission"
Interval == "Interval (custom)"

TimeUnits == {"Seconds", "Minutes", "Hours"}

multiplier(u) == CASE u = "Seconds" -> 1 [] u = "Minutes" -> 60 [] OTHER -> 3600

\* handle_auto_refresh as it would be with st_autorefresh outside the if
handle_auto_refresh_always(mode, unit, value) == value * multiplier(unit) * 1000

\* the interval of the st_autorefresh component this run renders, 0 for none
handle_auto_refresh(mode, unit, value) ==
  IF mode = Interval THEN value * multiplier(unit) * 1000 ELSE 0

(***************************************************************************)
(* filter_data_by_date                                                     *)
(***************************************************************************)
SingleDay == "Single day"
DateRange == "Date range"

\* filter_data_by_date with < end_date for <= end_date
filter_data_by_date_open_end(data, tsCol, ftype, day, range) ==
  IF ftype = SingleDay
  THEN [filtered |-> [columns |-> data.columns,
                      rows |-> MaskRows(data.rows,
                                 [k \in 1..Len(data.rows) |->
                                    DateOf(data.rows[k][tsCol]) = day])],
        msgs |-> {}]
  ELSE IF Len(range) = 2
  THEN [filtered |-> [columns |-> data.columns,
                      rows |-> MaskRows(data.rows,
                                 [k \in 1..Len(data.rows) |->
                                    /\ DateOf(data.rows[k][tsCol]) >= range[1]
                                    /\ DateOf(data.rows[k][tsCol]) < range[2]])],
        msgs |-> {}]
  ELSE [filtered |-> EmptyFrame, msgs |-> {"Please select a valid date range."}]

\* filter_data_by_date comparing the timestamp, not its date, with the day
filter_data_by_date_midnight(data, tsCol, ftype, day, range) ==
  IF ftype = SingleDay
  THEN [filtered |-> [columns |-> data.columns,
                      rows |-> MaskRows(data.rows,
                                 [k \in 1..Len(data.rows) |->
                                    data.rows[k][tsCol] = <<day, 0>>])],
        msgs |-> {}]
  ELSE IF Len(range) = 2
  THEN [filtered |-> [columns |-> data.columns,
                      rows |-> MaskRows(data.rows,
                                 [k \in 1..Len(data.rows) |->
                                    /\ DateOf(data.rows[k][tsCol]) >= range[1]
                                    /\ DateOf(data.rows[k][tsCol]) <= range[2]])],
        msgs |-> {}]
  ELSE [filtered |-> EmptyFrame, msgs |-> {"Please select a valid date range."}]

\* filter_data_by_date filtering on the one endpoint of an unfinished selection
filter_data_by_date_partial(data, tsCol, ftype, day, range) ==
  IF ftype = SingleDay
  THEN [filtered |-> [columns |-> data.columns,
                      rows |-> MaskRows(data.rows,
                                 [k \in 1..Len(data.rows) |->
                                    DateOf(data.rows[k][tsCol]) = day])],
        msgs |-> {}]
  ELSE [filtered |-> [columns |-> data.columns,
                      rows |-> MaskRows(data.rows,
                                 [k \in 1..Len(data.rows) |->
                                    /\ DateOf(data.rows[k][tsCol]) >= range[1]
                                    /\ DateOf(data.rows[k][tsCol]) <= range[Len(range)]])],
        msgs |-> IF Len(range) = 2 THEN {}
                 ELSE {"Please select a valid date range."}]

\* data: the frame after timestamp processing; tsCol: its timestamp column
filter_data_by_date(data, tsCol, ftype, day, range) ==
  IF ftype = SingleDay
  THEN [filtered |-> [columns |-> data.columns,
                      rows |-> MaskRows(data.rows,
                                 [k \in 1..Len(data.rows) |->
                                    DateOf(data.rows[k][tsCol]) = day])],
        msgs |-> {}]
  ELSE IF Len(range) = 2
  THEN [filtered |-> [columns |-> data.columns,
                      rows |-> MaskRows(data.rows,
                                 [k \in 1..Len(data.rows) |->
                                    /\ DateOf(data.rows[k][tsCol]) >= range[1]
                                    /\ DateOf(data.rows[k][tsCol]) <= range[2]])],
        msgs |-> {}]
  ELSE [filtered |-> EmptyFrame, msgs |-> {"Please select a valid date range."}]

(***************************************************************************)
(* plot_mood_distribution                                                  *)
(***************************************************************************)
\* Series.min() and Series.max() of a non-empty sequence of dates
MinOf(ds) == CHOOSE d \in {ds[k] : k \in 1..Len(ds)} : \A k \in 1..Len(ds) : d <= ds[k]
MaxOf(ds) == CHOOSE d \in {ds[k] : k \in 1..Len(ds)} : \A k \in 1..Len(ds) : d >= ds[k]

\* the if/elif chain on range_length; the result is the chart's title suffix
Granularity(range_length) ==
  IF range_length <= 14 THEN "Day"
  ELSE IF range_length <= 90 THEN "Week"
  ELSE IF range_length <= 365 THEN "Month"
  ELSE "Year"

\* Period with weeks starting on Sunday
Period_sunday(ts, gran) ==
  CASE gran = "Day" -> FmtDate(DateOf(ts))
    [] gran = "Week" -> FmtDate(DateOf(ts) - ((Weekday(DateOf(ts)) + 1) % 7))
    [] gran = "Month" -> FmtYearMonth(DateOf(ts))
    [] OTHER -> FmtYear(DateOf(ts))

\* filtered['period'] of one timestamp
Period(ts, gran) ==
  CASE gran = "Day" -> FmtDate(DateOf(ts))
    [] gran = "Week" -> FmtDate(DateOf(ts) - Weekday(DateOf(ts)))
    [] gran = "Month" -> FmtYearMonth(DateOf(ts))
    [] OTHER -> FmtYear(DateOf(ts))

\* filtered['period_label'] of one timestamp
PeriodLabel(ts, gran) ==
  CASE gran = "Day" -> Period(ts, gran)
    [] gran = "Week" -> S_WeekOf \o Period(ts, gran)
    [] gran = "Month" ->
         LET first == ParseYearMonth(Period(ts, gran))
         IN MonthAbbr(MonthOf(first)) \o <<Space>> \o Num4(YearOf(first))
    [] OTHER -> Period(ts, gran)

\* the order groupby sorts its keys in: by label, then by mood
KeyLess(a, b) == StrLess(a[1], b[1]) \/ (a[1] = b[1] /\ StrLess(a[2], b[2]))

RECURSIVE SortKeys(_)
SortKeys(S) ==
  IF S = {} THEN <<>>
  ELSE LET least == CHOOSE a \in S : \A b \in S : a = b \/ KeyLess(a, b)
       IN <<least>> \o SortKeys(S \ {least})

\* groupby(['period_label', 'mood']).size().reset_index(name='count'):
\* one row <<label, mood, count>> per pair that occurs, in key order
GroupSize(labels, moods) ==
  LET n == Len(labels)
      keys == SortKeys({<<labels[k], moods[k]>> : k \in 1..n})
  IN [i \in 1..Len(keys) |->
        <<keys[i][1], keys[i][2],
          Cardinality({k \in 1..n : <<labels[k], moods[k]>> = keys[i]})>>]

\* Series.value_counts().reset_index(): one row <<mood, count>> per mood that
\* occurs, most frequent first, ties in order of first appearance
RECURSIVE ValueCounts(_, _)
ValueCounts(moods, todo) ==
  IF todo = {} THEN <<>>
  ELSE LET n == Len(moods)
           cnt(m) == Cardinality({k \in 1..n : moods[k] = m})
           first(m) == CHOOSE k \in 1..n : moods[k] = m /\ \A j \in 1..(k - 1) : moods[j] # m
           top == CHOOSE m \in todo : \A o \in todo :
                    cnt(m) > cnt(o) \/ (cnt(m) = cnt(o) /\ first(m) <= first(o))
       IN <<<<top, cnt(top)>>>> \o ValueCounts(moods, todo \ {top})

NoChart == "none"

\* tsCol: the timestamp column of the frame
plot_mood_distribution(filtered, tsCol, ftype) ==
  IF IsEmpty(filtered)
  THEN [chart |-> NoChart, bars |-> <<>>, raised |-> FALSE,
        msgs |-> {"No mood entries for the selected date(s)."}]
  ELSE LET moodCol == ColIndex(filtered, S_mood)
           stamps == Column(filtered, tsCol)
           dates == [k \in 1..Len(stamps) |-> DateOf(stamps[k])]
       IN IF moodCol = 0
          THEN [chart |-> NoChart, bars |-> <<>>, raised |-> TRUE, msgs |-> {}]
          ELSE IF ftype = SingleDay
          THEN LET col == Column(filtered, moodCol)
               IN [chart |-> "Mood Distribution",
                   bars |-> ValueCounts(col, {col[k] : k \in 1..Len(col)}),
                   raised |-> FALSE, msgs |-> {}]
          ELSE LET start_date == MinOf(dates)
                   end_date == MaxOf(dates)
                   range_length == end_date - start_date
                   gran == Granularity(range_length)
                   labels == [k \in 1..Len(stamps) |-> PeriodLabel(stamps[k], gran)]
               IN [chart |-> gran,
                   bars |-> GroupSize(labels, Column(filtered, moodCol)),
                   raised |-> FALSE, msgs |-> {}]

(***************************************************************************)
(* State                                                                   *)
(***************************************************************************)
VARIABLES
  sheet,          \* the rows of the spreadsheet, header included
  handle,         \* the cached result of get_sheet(): "unset", "ok" or "none"
  now,            \* Pacific civil time of the last run
  refresh_mode,   \* sidebar radio
  time_unit,      \* sidebar selectbox (interval mode only)
  refresh_value,  \* sidebar slider (interval mode only)
  timer,          \* interval in ms of the mounted auto-refresh component, 0 if none
  mood,           \* mood selectbox
  note,           \* note text input
  filter_type,    \* "View by" radio
  day_picked,     \* the user has picked a day since the widget was mounted
  selected_day,   \* value of the single-day input in the last run, 0 if not shown
  range_picked,   \* the user has touched the range input since it was mounted
  date_range,     \* value of the range input in the last run, <<>> if not shown
  trigger,        \* what caused the last run
  stage,          \* how far the last run got
  attempts,       \* calls of sheet.append_row in the last run
  logged,         \* result of log_mood in the last run, FALSE if not called
  append_raised,  \* sheet.append_row raised in the last run
  read_ok,        \* sheet.get_all_values() did not raise in the last run
  df,             \* what get_data returned
  data,           \* the frame after timestamp processing
  filtered,       \* what filter_data_by_date returned
  chart,          \* the chart drawn: NoChart, "Mood Distribution" or the title suffix
  bars,           \* the rows handed to px.bar
  messages        \* the st.error / warning / info / success boxes of the last run

vars ==
  <<sheet, handle, now, refresh_mode, time_unit, refresh_value, timer, mood, note,
    filter_type, day_picked, selected_day, range_picked, date_range, trigger, stage,
    attempts, logged, append_raised, read_ok, df, data, filtered, chart, bars, messages>>

\* widget defaults and limits
DefaultRefreshValue == 10
MinRefreshValue == 1
MaxRefreshValue == 60
DefaultRangeDays == 7

\* the widget values a run starts from
Widgets ==
  [refresh_mode |-> refresh_mode, time_unit |-> time_unit,
   refresh_value |-> refresh_value, mood |-> mood, note |-> note,
   filter_type |-> filter_type, day_picked |-> day_picked,
   selected_day |-> selected_day, range_picked |-> range_picked,
   date_range |-> date_range]

\* a fresh session: every widget at its default
DefaultWidgets ==
  [refresh_mode |-> OnSubmission, time_unit |-> "Seconds",
   refresh_value |-> DefaultRefreshValue, mood |-> MoodOptions[1], note |-> <<>>,
   filter_type |-> SingleDay, day_picked |-> FALSE, selected_day |-> 0,
   range_picked |-> FALSE, date_range |-> <<>>]

(***************************************************************************)
(* main: timestamp processing                                              *)
(***************************************************************************)
\* ProcessTimestamps with the unparseable rows kept at the first date there is
ProcessTimestamps_keep(f, tsCol) ==
  [columns |-> f.columns,
   rows |-> [k \in 1..Len(f.rows) |->
               [f.rows[k] EXCEPT ![tsCol] =
                  IF ParseTimestamp(f.rows[k][tsCol]) = NaT THEN <<1, 0>>
                  ELSE ParseTimestamp(f.rows[k][tsCol])]]]

\* data['timestamp'] = pd.to_datetime(..., errors='coerce'), then dropna
ProcessTimestamps(f, tsCol) ==
  LET parsed == [k \in 1..Len(f.rows) |->
                   [f.rows[k] EXCEPT ![tsCol] = ParseTimestamp(f.rows[k][tsCol])]]
  IN [columns |-> f.columns,
      rows |-> MaskRows(parsed, [k \in 1..Len(parsed) |-> parsed[k][tsCol] # NaT])]

(***************************************************************************)
(* main: one run of the script.  s, h: the sheet and the cached handle;    *)
(* t: the time of the run; w: the widget values it starts from; pressed:   *)
(* the Submit button; connOk, apOk, rdOk: whether the store calls succeed. *)
(***************************************************************************)
\* what one run leaves behind, as a record with one field per variable
main_result(s, h, why, t, w, pressed, connOk, apOk, rdOk) ==
  LET interval_ms == handle_auto_refresh(w.refresh_mode, w.time_unit, w.refresh_value)
      hdl == IF h = "unset" THEN (IF connOk THEN "ok" ELSE "none") ELSE h
      lm == IF pressed THEN log_mood(s, t, w.mood, w.note, apOk)
            ELSE [ret |-> FALSE, sheet |-> s, msgs |-> {}, attempts |-> 0,
                  raised |-> FALSE]
      okMsg == IF lm.ret THEN {"Mood logged!"} ELSE {}
      gd == get_data(lm.sheet, rdOk)
      tsCol == ColIndex(gd.df, S_timestamp)
      processed == ProcessTimestamps(gd.df, tsCol)
      today == DateOf(t)
      day == IF w.day_picked THEN w.selected_day ELSE today
      range == IF w.range_picked THEN w.date_range
               ELSE <<today - DefaultRangeDays, today>>
      fl == filter_data_by_date(processed, tsCol, w.filter_type, day, range)
      pl == plot_mood_distribution(fl.filtered, tsCol, w.filter_type)
      \* the sidebar; time unit and slider exist in interval mode only
      sidebar ==
        [now |-> t, trigger |-> why, handle |-> hdl,
         refresh_mode |-> w.refresh_mode,
         time_unit |-> IF w.refresh_mode = Interval THEN w.time_unit
                       ELSE DefaultWidgets.time_unit,
         refresh_value |-> IF w.refresh_mode = Interval THEN w.refresh_value
                           ELSE DefaultWidgets.refresh_value,
         timer |-> interval_ms]
      \* nothing below the sidebar is shown
      blank ==
        [mood |-> DefaultWidgets.mood, note |-> DefaultWidgets.note, sheet |-> s,
         attempts |-> 0, logged |-> FALSE, append_raised |-> FALSE,
         read_ok |-> FALSE, df |-> EmptyFrame,
         filter_type |-> SingleDay, day_picked |-> FALSE, selected_day |-> 0,
         range_picked |-> FALSE, date_range |-> <<>>, data |-> EmptyFrame,
         filtered |-> EmptyFrame, chart |-> NoChart, bars |-> <<>>,
         stage |-> "stopped", messages |-> {"Failed to connect to Google Sheets"}]
      \* the form and get_data have run
      form ==
        [blank EXCEPT !.mood = w.mood, !.note = w.note, !.sheet = lm.sheet,
                      !.attempts = lm.attempts, !.logged = lm.ret,
                      !.append_raised = lm.raised, !.read_ok = rdOk,
                      !.df = gd.df]
      \* the filter widgets have been shown
      shown ==
        [form EXCEPT !.filter_type = w.filter_type,
                     !.day_picked = (w.filter_type = SingleDay /\ w.day_picked),
                     !.selected_day = IF w.filter_type = SingleDay THEN day ELSE 0,
                     !.range_picked = (w.filter_type = DateRange /\ w.range_picked),
                     !.date_range = IF w.filter_type = DateRange THEN range ELSE <<>>,
                     !.data = processed, !.filtered = fl.filtered]
  IN sidebar @@
     (IF hdl # "ok" THEN blank
      ELSE IF IsEmpty(gd.df)
      THEN [form EXCEPT !.stage = "nodata",
                        !.messages = lm.msgs \cup okMsg \cup gd.msgs
                                       \cup {"No data available yet."}]
      ELSE IF tsCol = 0
      THEN [form EXCEPT !.stage = "raised",
                        !.messages = lm.msgs \cup okMsg \cup gd.msgs]
      ELSE IF pl.raised
      THEN [shown EXCEPT !.stage = "raised",
                         !.messages = lm.msgs \cup okMsg \cup gd.msgs \cup fl.msgs]
      ELSE [shown EXCEPT !.stage = "rendered", !.chart = pl.chart, !.bars = pl.bars,
                         !.messages = lm.msgs \cup okMsg \cup gd.msgs \cup fl.msgs
                                        \cup pl.msgs])

main(why, t, w, pressed, connOk, apOk, rdOk) ==
  \E r \in {main_result(sheet, handle, why, t, w, pressed, connOk, apOk, rdOk)} :
    /\ now' = r.now
    /\ trigger' = r.trigger
    /\ handle' = r.handle
    /\ refresh_mode' = r.refresh_mode
    /\ time_unit' = r.time_unit
    /\ refresh_value' = r.refresh_value
    /\ timer' = r.timer
    /\ mood' = r.mood
    /\ note' = r.note
    /\ sheet' = r.sheet
    /\ attempts' = r.attempts
    /\ logged' = r.logged
    /\ append_raised' = r.append_raised
    /\ read_ok' = r.read_ok
    /\ df' = r.df
    /\ filter_type' = r.filter_type
    /\ day_picked' = r.day_picked
    /\ selected_day' = r.selected_day
    /\ range_picked' = r.range_picked
    /\ date_range' = r.date_range
    /\ data' = r.data
    /\ filtered' = r.filtered
    /\ chart' = r.chart
    /\ bars' = r.bars
    /\ stage' = r.stage
    /\ messages' = r.messages

(***************************************************************************)
(* Steps: what makes Streamlit run the script                              *)
(***************************************************************************)
\* a <= b on datetimes
TimeLeq(a, b) == a[1] < b[1] \/ (a[1] = b[1] /\ a[2] <= b[2])

\* seconds from a to b
Elapsed(a, b) == (b[1] - a[1]) * 86400 + (b[2] - a[2])

\* the filter widgets were shown by the last run
FilterShown == selected_day # 0 \/ date_range # <<>>

\* rows the sheet may grow to
MaxRows == 3

\* the page is opened or reloaded in the browser: a new session
Load(t, connOk, rdOk) ==
  /\ TimeLeq(now, t)
  /\ main("load", t, DefaultWidgets, FALSE, connOk, TRUE, rdOk)

\* the user sets mood and note and presses Submit
Submit(t, m, n, apOk, rdOk) ==
  /\ TimeLeq(now, t)
  /\ stage \notin {"init", "stopped"}
  /\ Len(sheet) < MaxRows
  /\ main("submit", t, [Widgets EXCEPT !.mood = m, !.note = n], TRUE, TRUE, apOk, rdOk)

SetRefreshMode(t, mode) ==
  /\ TimeLeq(now, t)
  /\ stage # "init"
  /\ mode # refresh_mode
  /\ main("widget", t, [Widgets EXCEPT !.refresh_mode = mode], FALSE, TRUE, TRUE, TRUE)

SetTimeUnit(t, unit) ==
  /\ TimeLeq(now, t)
  /\ stage # "init"
  /\ refresh_mode = Interval
  /\ unit # time_unit
  /\ main("widget", t, [Widgets EXCEPT !.time_unit = unit], FALSE, TRUE, TRUE, TRUE)

SetRefreshValue(t, value) ==
  /\ TimeLeq(now, t)
  /\ stage # "init"
  /\ refresh_mode = Interval
  /\ value >= MinRefreshValue /\ value <= MaxRefreshValue
  /\ value # refresh_value
  /\ main("widget", t, [Widgets EXCEPT !.refresh_value = value], FALSE, TRUE, TRUE, TRUE)

SetFilterType(t, ftype) ==
  /\ TimeLeq(now, t)
  /\ FilterShown
  /\ ftype # filter_type
  /\ main("widget", t, [Widgets EXCEPT !.filter_type = ftype], FALSE, TRUE, TRUE, TRUE)

PickDay(t, d) ==
  /\ TimeLeq(now, t)
  /\ FilterShown
  /\ filter_type = SingleDay
  /\ main("widget", t, [Widgets EXCEPT !.day_picked = TRUE, !.selected_day = d],
          FALSE, TRUE, TRUE, TRUE)

\* r: one endpoint while the selection is under way, or both, start first
PickRange(t, r) ==
  /\ TimeLeq(now, t)
  /\ FilterShown
  /\ filter_type = DateRange
  /\ Len(r) \in {1, 2}
  /\ Len(r) = 2 => r[1] <= r[2]
  /\ main("widget", t, [Widgets EXCEPT !.range_picked = TRUE, !.date_range = r],
          FALSE, TRUE, TRUE, TRUE)

\* the mounted auto-refresh component fires
TimerTick(t, rdOk) ==
  /\ timer # 0
  /\ Elapsed(now, t) * 1000 >= timer
  /\ main("timer", t, Widgets, FALSE, TRUE, TRUE, rdOk)

\* before the first run
InitWith(s, t) ==
  /\ sheet = s
  /\ handle = "unset"
  /\ now = t
  /\ refresh_mode = DefaultWidgets.refresh_mode
  /\ time_unit = DefaultWidgets.time_unit
  /\ refresh_value = DefaultWidgets.refresh_value
  /\ timer = 0
  /\ mood = DefaultWidgets.mood
  /\ note = DefaultWidgets.note
  /\ filter_type = DefaultWidgets.filter_type
  /\ day_picked = FALSE
  /\ selected_day = 0
  /\ range_picked = FALSE
  /\ date_range = <<>>
  /\ trigger = "none"
  /\ stage = "init"
  /\ attempts = 0
  /\ logged = FALSE
  /\ append_raised = FALSE
  /\ read_ok = FALSE
  /\ df = EmptyFrame
  /\ data = EmptyFrame
  /\ filtered = EmptyFrame
  /\ chart = NoChart
  /\ bars = <<>>
  /\ messages = {}

(***************************************************************************)
(* Sample inputs                                                           *)
(***************************************************************************)
Noon == 12 * 3600
LastSecond == 24 * 3600 - 1

\* "ok"
S_ok == <<111, 107>>
\* "n/a"
S_na == <<110, 47, 97>>
\* "2024-02-30 12:00:00": the layout is right, the date does not exist
S_feb30 ==
  Num4(2024) \o <<Dash>> \o Num2(2) \o <<Dash>> \o Num2(30) \o <<Space>>
    \o Num2(12) \o <<Colon>> \o Num2(0) \o <<Colon>> \o Num2(0)

Notes == {<<>>, S_ok}

Entry(t, m, n) == <<FmtTimestamp(t), m, n>>

\* the timestamps of the parseable rows never decrease down the sheet
Chronological(rows) ==
  \A i, j \in 1..Len(rows) :
    (i < j /\ ParseTimestamp(rows[i][1]) # NaT /\ ParseTimestamp(rows[j][1]) # NaT)
      => TimeLeq(ParseTimestamp(rows[i][1]), ParseTimestamp(rows[j][1]))

\* header plus at most n rows drawn from R
SheetsOver(R, n) ==
  {<<HeaderRow>> \o rows : rows \in
     {r \in UNION {[1..k -> R] : k \in 0..n} : Chronological(r)}}

(***************************************************************************)
(* Spec: logging.  The sheet starts with no rows or with the header only   *)
(* and grows by submissions.                                               *)
(***************************************************************************)
LogTime == <<Ymd2Ord(2024, 1, 1), Noon>>

Init == \E s \in {<<>>, <<HeaderRow>>} : InitWith(s, LogTime)

Next ==
  \/ \E c, r \in BOOLEAN : Load(LogTime, c, r)
  \/ \E m \in Moods, n \in Notes, a, r \in BOOLEAN : Submit(LogTime, m, n, a, r)

Spec == Init /\ [][Next]_vars

\* C1: after a successful log_mood, a get_data that reads the sheet returns a
\* frame holding a row with the submitted mood and note, whatever the sheet
\* held before (no rows at all, or the header only, included).
C1_AppendThenRead ==
  (trigger = "submit" /\ logged /\ read_ok)
    => \E k \in 1..Len(df.rows) : df.rows[k][2] = mood /\ df.rows[k][3] = note

\* C8: a submission whose append fails reports the error, shows no success
\* message, leaves the sheet as it was, calls append_row once and still goes
\* on to get_data and the rest of the run.
C8_FailedAppend ==
  [][(trigger' = "submit" /\ append_raised')
       => /\ ~logged'
          /\ sheet' = sheet
          /\ attempts' = 1
          /\ "Error logging mood" \in messages'
          /\ "Mood logged!" \notin messages'
          /\ stage' \in {"nodata", "raised", "rendered"}
          /\ (read_ok' /\ Len(sheet) >= 2) => df'.rows = Tail(sheet)
          /\ (read_ok' /\ Len(sheet) < 2) => "No data available yet." \in messages'
    ]_vars

\* a failed submission on a sheet with entries: the error is shown and the
\* chart of the unchanged sheet is drawn
C8_Witness ==
  /\ trigger = "submit"
  /\ append_raised
  /\ ~logged
  /\ attempts = 1
  /\ "Error logging mood" \in messages
  /\ stage = "rendered"
  /\ chart = "Mood Distribution"
  /\ Len(sheet) = 2

(***************************************************************************)
(* SpecRefresh: the refresh control.  The sheet holds one entry; the user  *)
(* works the sidebar and the timer fires when its interval has passed.     *)
(***************************************************************************)
RefreshStart == <<Ymd2Ord(2024, 1, 1), Noon>>

RefreshTimes ==
  {RefreshStart, <<RefreshStart[1], Noon + 1>>, <<RefreshStart[1], Noon + 60>>,
   <<RefreshStart[1] + 3, Noon>>}

RefreshValues == MinRefreshValue..MaxRefreshValue

InitRefresh ==
  InitWith(<<HeaderRow, Entry(RefreshStart, MoodOptions[1], <<>>)>>, RefreshStart)

NextRefresh ==
  \/ \E t \in RefreshTimes : Load(t, TRUE, TRUE)
  \/ \E t \in RefreshTimes, mode \in {OnSubmission, Interval} : SetRefreshMode(t, mode)
  \/ \E t \in RefreshTimes, u \in TimeUnits : SetTimeUnit(t, u)
  \/ \E t \in RefreshTimes, v \in RefreshValues : SetRefreshValue(t, v)
  \/ \E t \in RefreshTimes : TimerTick(t, TRUE)

SpecRefresh == InitRefresh /\ [][NextRefresh]_vars

\* C10: the mode is one of the two; in on-submission mode no timer is mounted;
\* in interval mode every run mounts a timer of N * (1, 60 or 3600) * 1000 ms
\* with 1 <= N <= 60; and a timer-driven run only ever starts from interval
\* mode, so none occurs after the mode was switched away from it.
C10_RefreshControl ==
  /\ [](/\ refresh_mode \in {OnSubmission, Interval}
        /\ refresh_mode = OnSubmission => timer = 0
        /\ refresh_mode = Interval =>
             /\ refresh_value >= 1 /\ refresh_value <= 60
             /\ \E k \in {1, 60, 3600} :
                  /\ k = multiplier(time_unit)
                  /\ timer = refresh_value * k * 1000)
  /\ [][trigger' = "timer" => (refresh_mode = Interval /\ timer # 0)]_vars

\* a timer-driven run in interval mode, at the longest interval
C10_Witness ==
  /\ trigger = "timer"
  /\ refresh_mode = Interval
  /\ time_unit = "Hours"
  /\ refresh_value = 60
  /\ timer = 216000000

\* the mode was switched back to on-submission after timer-driven runs had begun
C10_WitnessSwitchedAway ==
  /\ trigger = "widget"
  /\ refresh_mode = OnSubmission
  /\ timer = 0
  /\ now # RefreshStart

(***************************************************************************)
(* What the sheet holds, read independently of main: used by the           *)
(* properties of the filter and the chart                                  *)
(***************************************************************************)
\* the data rows of the sheet with their timestamp parsed
StoredEntries ==
  [k \in 1..(Len(sheet) - 1) |->
     <<ParseTimestamp(sheet[k + 1][1]), sheet[k + 1][2], sheet[k + 1][3]>>]

Parseable(e) == e[1] # NaT

OnDay(e, d) == Parseable(e) /\ e[1][1] = d

Within(e, a, b) == Parseable(e) /\ a <= e[1][1] /\ e[1][1] <= b

\* the first day of the bucket a date falls in
BucketStart(d, gran) ==
  CASE gran = "Day" -> d
    [] gran = "Week" -> d - Weekday(d)
    [] gran = "Month" -> Ymd2Ord(YearOf(d), MonthOf(d), 1)
    [] OTHER -> Ymd2Ord(YearOf(d), 1, 1)

RangeChart == chart \in {"Day", "Week", "Month", "Year"}

\* rows the sheet holds before the first run
MaxSheetRows == 3

(***************************************************************************)
(* SpecFilter: the filter stage.  Entries lie on three adjacent days, at   *)
(* the first and last second of the middle one; two rows do not parse.     *)
(***************************************************************************)
Dec31 == Ymd2Ord(2023, 12, 31)
Jan01 == Ymd2Ord(2024, 1, 1)
Jan02 == Ymd2Ord(2024, 1, 2)

FilterDays == {Dec31, Jan01, Jan02}

FilterNow == <<Jan02, Noon>>

FilterMoods == {MoodOptions[1], MoodOptions[4]}

\* both moods on the middle day, one each on the days around it
FilterRows ==
  {Entry(<<Dec31, LastSecond>>, MoodOptions[1], <<>>),
   Entry(<<Jan02, 0>>, MoodOptions[4], <<>>)}
    \cup {Entry(t, m, <<>>) :
            t \in {<<Jan01, 0>>, <<Jan01, LastSecond>>}, m \in FilterMoods}
    \cup {<<S_na, MoodOptions[1], <<>>>>, <<S_feb30, MoodOptions[4], S_ok>>}

FilterRanges ==
  {<<a>> : a \in FilterDays}
    \cup {r \in {<<a, b>> : a \in FilterDays, b \in FilterDays} : r[1] <= r[2]}

InitFilter == \E s \in SheetsOver(FilterRows, MaxSheetRows) : InitWith(s, FilterNow)

NextFilter ==
  \/ \E r \in BOOLEAN : Load(FilterNow, TRUE, r)
  \/ \E f \in {SingleDay, DateRange} : SetFilterType(FilterNow, f)
  \/ \E d \in FilterDays : PickDay(FilterNow, d)
  \/ \E r \in FilterRanges : PickRange(FilterNow, r)

SpecFilter == InitFilter /\ [][NextFilter]_vars

\* C5: with both endpoints chosen, the range filter returns exactly the stored
\* entries dated start <= d <= end, in sheet order, each once: those dated
\* start or end are in, those dated the day before start or after end are out.
C5_RangeInclusive ==
  (stage = "rendered" /\ filter_type = DateRange /\ Len(date_range) = 2)
    => LET start == date_range[1]
           end == date_range[2]
           In(e) == Within(e, start, end)
           kept == {filtered.rows[k] : k \in 1..Len(filtered.rows)}
       IN /\ filtered.rows = SelectSeq(StoredEntries, In)
          /\ \A k \in 1..Len(StoredEntries) :
               LET e == StoredEntries[k]
               IN /\ (OnDay(e, start) \/ OnDay(e, end)) => e \in kept
                  /\ (OnDay(e, start - 1) \/ OnDay(e, end + 1)) => e \notin kept

\* the range starts on a day with an entry and ends on a later day with one;
\* the entry of the day before is left out
C5_Witness ==
  /\ stage = "rendered"
  /\ filter_type = DateRange
  /\ date_range = <<Jan01, Jan02>>
  /\ Len(StoredEntries) = 3
  /\ OnDay(StoredEntries[1], Dec31)
  /\ OnDay(StoredEntries[2], Jan01)
  /\ OnDay(StoredEntries[3], Jan02)
  /\ Len(filtered.rows) = 2

\* the count the single-day chart shows for a mood, 0 if it has no bar
MoodBar(m) ==
  IF \E i \in 1..Len(bars) : bars[i][1] = m
  THEN bars[CHOOSE i \in 1..Len(bars) : bars[i][1] = m][2]
  ELSE 0

\* C6: the single-day filter returns exactly the stored entries dated D, at
\* any time of day, none of D-1 or D+1, and the chart's count of each mood is
\* the number of entries of that mood on D.
C6_SingleDay ==
  (stage = "rendered" /\ filter_type = SingleDay)
    => LET In(e) == OnDay(e, selected_day)
           kept == {filtered.rows[k] : k \in 1..Len(filtered.rows)}
       IN /\ filtered.rows = SelectSeq(StoredEntries, In)
          /\ \A k \in 1..Len(StoredEntries) :
               LET e == StoredEntries[k]
               IN (OnDay(e, selected_day - 1) \/ OnDay(e, selected_day + 1))
                    => e \notin kept
          /\ filtered.rows # <<>> =>
               /\ chart = "Mood Distribution"
               /\ \A m \in Moods :
                    MoodBar(m) = Cardinality({k \in 1..Len(StoredEntries) :
                                   In(StoredEntries[k]) /\ StoredEntries[k][2] = m})
               /\ \A i, j \in 1..Len(bars) : bars[i][1] = bars[j][1] => i = j

\* the day holds an entry at 00:00:00 and one at 23:59:59, the day before one
\* at 23:59:59
C6_Witness ==
  /\ stage = "rendered"
  /\ filter_type = SingleDay
  /\ selected_day = Jan01
  /\ Len(StoredEntries) = 3
  /\ StoredEntries[1][1] = <<Dec31, LastSecond>>
  /\ StoredEntries[2][1] = <<Jan01, 0>>
  /\ StoredEntries[3][1] = <<Jan01, LastSecond>>
  /\ Len(filtered.rows) = 2
  /\ Len(bars) = 2

\* the sum of the counts of the chart's rows
RECURSIVE SumCounts(_)
SumCounts(bs) == IF bs = <<>> THEN 0 ELSE Head(bs)[Len(Head(bs))] + SumCounts(Tail(bs))

\* C7: a stored row whose timestamp does not parse is gone before the filter
\* runs, and every row that parses is kept: the processed frame is exactly the
\* parseable rows, the filtered rows and the counts come from them alone, and
\* the span the granularity is chosen from is theirs.
C7_UnparseableDropped ==
  (stage = "rendered")
    => /\ data.rows = SelectSeq(StoredEntries, Parseable)
       /\ \A k \in 1..Len(filtered.rows) :
            /\ Parseable(filtered.rows[k])
            /\ \E j \in 1..Len(StoredEntries) : StoredEntries[j] = filtered.rows[k]
       /\ chart # NoChart =>
            SumCounts(bars) = Cardinality({k \in 1..Len(StoredEntries) :
              /\ Parseable(StoredEntries[k])
              /\ IF filter_type = SingleDay
                 THEN OnDay(StoredEntries[k], selected_day)
                 ELSE Within(StoredEntries[k], date_range[1], date_range[2])})
       /\ RangeChart =>
            LET ds == {StoredEntries[k][1][1] : k \in
                         {j \in 1..Len(StoredEntries) :
                            Within(StoredEntries[j], date_range[1], date_range[2])}}
            IN \E lo \in ds, hi \in ds :
                 /\ \A d \in ds : lo <= d /\ d <= hi
                 /\ chart = Granularity(hi - lo)

\* the sheet holds a row that does not parse between two that do, and the
\* chart of a range over both is drawn
C7_Witness ==
  /\ stage = "rendered"
  /\ Len(StoredEntries) = 3
  /\ Parseable(StoredEntries[1])
  /\ ~Parseable(StoredEntries[2])
  /\ Parseable(StoredEntries[3])
  /\ Len(data.rows) = 2
  /\ RangeChart
  /\ Len(filtered.rows) = 2

\* C9: in date-range mode with a selection of other than two endpoints no
\* filter is applied: the warning is shown, the filtered frame is empty and
\* no chart is drawn.
C9_IncompleteRange ==
  (stage = "rendered" /\ filter_type = DateRange /\ Len(date_range) # 2)
    => /\ "Please select a valid date range." \in messages
       /\ IsEmpty(filtered)
       /\ filtered.rows = <<>>
       /\ chart = NoChart
       /\ bars = <<>>

\* one endpoint is chosen, and the sheet holds an entry of that very day
C9_Witness ==
  /\ stage = "rendered"
  /\ filter_type = DateRange
  /\ Len(date_range) = 1
  /\ \E k \in 1..Len(data.rows) : data.rows[k][1][1] = date_range[1]
  /\ "Please select a valid date range." \in messages

(***************************************************************************)
(* SpecChart: bucketing and aggregation.  Entries lie on six days whose    *)
(* distances are 14, 15, 90, 91, 365 and 366 days and which straddle a     *)
(* week, a month and a year boundary.                                      *)
(***************************************************************************)
Jan15 == Ymd2Ord(2024, 1, 15)
Apr01 == Ymd2Ord(2024, 4, 1)
Dec31Next == Ymd2Ord(2024, 12, 31)

ChartDays == {Dec31, Jan01, Jan02, Jan15, Apr01, Dec31Next}

ChartNow == <<Dec31Next, LastSecond>>

ChartRows == {Entry(<<d, Noon>>, m, <<>>) : d \in ChartDays, m \in FilterMoods}

ChartRanges ==
  {<<Dec31, Dec31Next>>, <<Jan01, Dec31Next>>, <<Jan01, Apr01>>, <<Jan02, Apr01>>,
   <<Jan01, Jan15>>, <<Dec31, Jan15>>}

InitChart == \E s \in SheetsOver(ChartRows, MaxSheetRows) : InitWith(s, ChartNow)

NextChart ==
  \/ Load(ChartNow, TRUE, TRUE)
  \/ \E f \in {SingleDay, DateRange} : SetFilterType(ChartNow, f)
  \/ \E d \in {Jan01, Jan15} : PickDay(ChartNow, d)
  \/ \E r \in ChartRanges : PickRange(ChartNow, r)

SpecChart == InitChart /\ [][NextChart]_vars

\* C2: in date-range mode the granularity depends on the span of the query,
\* end minus start, alone: <= 14 day, <= 90 week, <= 365 month, else year.
C2_GranularityOfQuerySpan ==
  (stage = "rendered" /\ filter_type = DateRange /\ Len(date_range) = 2 /\ RangeChart)
    => chart = Granularity(date_range[2] - date_range[1])

\* the entries of the filtered frame that a chart row with this label stands for
LabelEntries(label) ==
  {k \in 1..Len(filtered.rows) : PeriodLabel(filtered.rows[k][1], chart) = label}

\* C3: in date-range mode the rows handed to the chart are in the order of
\* their buckets' dates, for every granularity.
C3_BarsChronological ==
  (stage = "rendered" /\ RangeChart)
    => \A i, j \in 1..Len(bars) :
         i < j =>
           \A k \in LabelEntries(bars[i][1]), l \in LabelEntries(bars[j][1]) :
             BucketStart(filtered.rows[k][1][1], chart)
               <= BucketStart(filtered.rows[l][1][1], chart)

\* C4: every chart row's count is the number of filtered entries of its mood
\* whose date falls in its bucket and is at least 1; every (bucket, mood)
\* with an entry has exactly one row; the counts of a bucket add up to the
\* entries dated in it and all counts to the size of the filtered frame.
C4_ExactCounts ==
  (stage = "rendered" /\ chart # NoChart)
    => LET n == Len(filtered.rows)
           Date(k) == filtered.rows[k][1][1]
           Mood(k) == filtered.rows[k][2]
       IN /\ SumCounts(bars) = n
          /\ filter_type = SingleDay =>
               /\ \A i \in 1..Len(bars) :
                    /\ bars[i][2] >= 1
                    /\ bars[i][2] = Cardinality({k \in 1..n : Mood(k) = bars[i][1]})
               /\ \A k \in 1..n :
                    Cardinality({i \in 1..Len(bars) : bars[i][1] = Mood(k)}) = 1
          /\ filter_type = DateRange =>
               /\ \A i \in 1..Len(bars) :
                    /\ bars[i][3] >= 1
                    /\ \E k \in LabelEntries(bars[i][1]) :
                         bars[i][3] = Cardinality({j \in 1..n :
                           /\ Mood(j) = bars[i][2]
                           /\ BucketStart(Date(j), chart) = BucketStart(Date(k), chart)})
               /\ \A k \in 1..n :
                    LET label == PeriodLabel(filtered.rows[k][1], chart)
                        HasLabel(b) == b[1] = label
                    IN /\ Cardinality({i \in 1..Len(bars) :
                            bars[i][1] = label /\ bars[i][2] = Mood(k)}) = 1
                       /\ SumCounts(SelectSeq(bars, HasLabel))
                            = Cardinality({j \in 1..n :
                                BucketStart(Date(j), chart) = BucketStart(Date(k), chart)})

\* week buckets: an entry on a Sunday and two of one mood on a Monday two
\* weeks later make two rows, one of them with count 2
C4_Witness ==
  /\ stage = "rendered"
  /\ chart = "Week"
  /\ Len(filtered.rows) = 3
  /\ filtered.rows[1][1][1] = Dec31
  /\ filtered.rows[2][1][1] = Jan15
  /\ Len(bars) = 2
  /\ bars[1][3] = 1
  /\ bars[2][3] = 2

====
